---- MODULE Spec2Model ----
(***************************************************************************)
(* Model of whisper_real_time's client/server transcription session:       *)
(*   src/transcribe_client.py  microphone agent (main, KeepAlive,          *)
(*                             recv_exact, connect, connection_coroutine)  *)
(*   src/transcribe_server.py  transcription server (main, recv_exact,     *)
(*                             connection_coroutine)                       *)
(*                                                                         *)
(* Time is counted in units of 250 ms (one sleep(0.25)).  The program      *)
(* only ever compares clock differences (utcnow() - x against a            *)
(* threshold), so each recorded instant x is held as the elapsed time      *)
(* utcnow() - x, saturating just above the threshold it is compared with.  *)
(*                                                                         *)
(* struct format "l" is the platform's C long, little-endian: 8 bytes on   *)
(* LP64 hosts, 4 bytes on Windows and 32-bit hosts.  Both programs run on  *)
(* hosts of the same kind (the default host is localhost).                 *)
(***************************************************************************)
EXTENDS Integers, Sequences, FiniteSets, TLC

(***************************************************************************)
(* Bounds of the model.                                                    *)
(***************************************************************************)
\* recordings the capture thread delivers in one run
MaxChunks == 3
\* connection attempts the client makes in one run
MaxAttempts == 4
\* bytes one direction of the TCP connection buffers (socket send buffer)
WireCap == 16
\* args.phrase_timeout, in units of 250 ms (--phrase_timeout 0.5)
PhraseTimeout == 2
\* bytes of the payloads framed in SpecCodec
MaxLen == 3
\* KeyboardInterrupts the drain loop's bare except swallows in one run
MaxInterrupts == 1

(***************************************************************************)
(* Program constants.                                                      *)
(***************************************************************************)
\* the literal of recv_exact(8, ...)
LongSize == 8
\* the values of struct.calcsize("l")
NativeSizes == {4, 8}
\* sleep(5) after a refused connection attempt
Backoff == 20
\* KeepAlive(1): one second
KeepAliveSeconds == 4
\* sleep(0.25)
PollSleep == 1

\* audio.get_raw_data() of the i-th recording: one byte that names the
\* recording, or no bytes at all (at most one recording of a run is empty)
Recordings(i) == {<<i>>, <<>>}
\* result['text'] of the k-th audio_model.transcribe call.  The texts name
\* the call; odd calls return " a", " c", ... with the leading space
\* Whisper emits, even calls a two-byte character (U+00EA, U+00EC, ...)
EngineTexts(k) == IF k % 2 = 1 THEN {<<32, 96 + k>>} ELSE {<<232 + k>>}
\* Python's None (no text received yet)
None == <<-1>>
\* phrase_time = None
NoTime == -1

Min(a, b) == IF a < b THEN a ELSE b
Last(s) == s[Len(s)]

(***************************************************************************)
(* str.encode('utf8') / bytes.decode('utf8') for code points below U+0800, *)
(* and str.strip().                                                        *)
(***************************************************************************)
Utf8Char(c) == IF c < 128 THEN <<c>> ELSE <<192 + (c \div 64), 128 + (c % 64)>>

RECURSIVE Utf8Encode(_)
Utf8Encode(t) == IF t = <<>> THEN <<>> ELSE Utf8Char(Head(t)) \o Utf8Encode(Tail(t))

\* the decoded text, or None when the bytes are not valid UTF-8
RECURSIVE Utf8Decode(_)
Utf8Decode(b) ==
    IF b = <<>> THEN <<>>
    ELSE IF b[1] < 128
         THEN LET r == Utf8Decode(Tail(b))
              IN IF r = None THEN None ELSE <<b[1]>> \o r
    ELSE IF b[1] >= 194 /\ b[1] < 224 /\ Len(b) >= 2 /\ b[2] >= 128 /\ b[2] < 192
         THEN LET r == Utf8Decode(SubSeq(b, 3, Len(b)))
              IN IF r = None THEN None
                 ELSE <<(b[1] - 192) * 64 + (b[2] - 128)>> \o r
    ELSE None

Whitespace == {9, 10, 11, 12, 13, 32}

RECURSIVE LStrip(_)
LStrip(t) == IF t # <<>> /\ Head(t) \in Whitespace THEN LStrip(Tail(t)) ELSE t

RECURSIVE RStrip(_)
RStrip(t) ==
    IF t # <<>> /\ t[Len(t)] \in Whitespace THEN RStrip(SubSeq(t, 1, Len(t) - 1)) ELSE t

Strip(t) == RStrip(LStrip(t))

(***************************************************************************)
(* State.                                                                  *)
(***************************************************************************)
VARIABLES
    native,           \* struct.calcsize("l") on the hosts of this run
    \* ---- client (transcribe_client.py) ----
    cPc,              \* position of the client's main thread
    connLog,          \* what connect() has done so far: attempts and sleeps
    keepalive_last,   \* utcnow() - keepalive.last; held at 0 from line 88 to
                      \* keepalive.reset() at line 115, where it is not read
    phrase_time,      \* utcnow() - phrase_time, NoTime while phrase_time is None
    phrase_complete,  \* main's phrase_complete, from line 89 to line 121
    current_sample,   \* main's current_sample
    data_queue,       \* main's data_queue
    transcription,    \* main's transcription
    text,             \* connection_coroutine's text (client)
    cBuf,             \* recv_exact's data (client)
    cLen,             \* connection_coroutine's length (client), while the
                      \* text of that length is read
    c_eof,            \* conn.recv returned b'' inside the client's recv_exact
    captured,         \* recordings delivered by the capture thread
    arrival,          \* utcnow() - (time of the last record_callback)
    silences,         \* the recordings (by index) that came more than
                      \* phrase_timeout after the recording before them
    submitted,        \* buffers passed to cnx.send at line 114
    returned,         \* texts cnx.send returned at line 114
    finalizes,        \* one entry per tick that took the branch of lines 91-101:
                      \* the number of recordings dequeued before that tick
    reads,            \* reply frames read whole at lines 202-203
    printed,          \* what lines 135-137 printed: << >> before they run,
                      \* <<transcription>> after
    interrupts,       \* KeyboardInterrupts delivered to the main thread
    latched,          \* the last keepalive.step() returned False and
                      \* keepalive.reset() has not been called since
    \* ---- server (transcribe_server.py) ----
    sEntry,           \* "main": main() as written; "coroutine": the generator
                      \* connection_coroutine(host, port) driven by main's loop
    sPc,              \* position of the server
    sBuf,             \* recv_exact's data (server)
    sLen,             \* connection_coroutine's length (server), while the
                      \* payload of that length is read
    s_eof,            \* conn.recv returned b'' inside the server's recv_exact
    accepted,         \* connections s.accept() has returned
    frames,           \* data_recv values yielded to main
    engine,           \* result['text'] of every audio_model.transcribe call
    replies,          \* reply frames written by conn.send
    \* ---- the TCP connection ----
    link,             \* "none", "pending" (connected, not yet accepted), "open"
    c2s,              \* bytes in flight from client to server
    s2c               \* bytes in flight from server to client

cvars == <<cPc, connLog, keepalive_last, phrase_time, phrase_complete,
           current_sample, data_queue, transcription, text, cBuf, cLen, c_eof,
           captured, arrival, silences, submitted, returned,
           finalizes, reads, printed, interrupts, latched>>
svars == <<sEntry, sPc, sBuf, sLen, s_eof, accepted, frames, engine, replies>>
nvars == <<link, c2s, s2c>>
vars == <<native, cvars, svars, nvars>>

\* groups of client variables, for UNCHANGED
cSeg == <<phrase_time, phrase_complete, current_sample, transcription>>
cIo == <<text, cBuf, cLen, c_eof>>
cHist == <<submitted, returned>>
cCap == <<data_queue, captured>>
cArr == <<arrival, silences>>
cMon == <<finalizes, reads, printed, interrupts, latched>>
sIo == <<sBuf, sLen, s_eof>>
sHist == <<accepted, frames, engine, replies>>

(***************************************************************************)
(* Framing: struct.pack("l", n) / struct.unpack("l", b).                   *)
(***************************************************************************)
Pow256 == <<1, 256, 65536, 16777216>>
\* a length no stream of the model can deliver
TooLong == 2147483647

\* struct.error: unpack requires a buffer of calcsize("l") bytes
StructError == -2

Pack(n) == [i \in 1..native |-> IF i <= 4 THEN (n \div Pow256[i]) % 256 ELSE 0]

\* "l" is signed: a top bit set gives a negative length (held as -1)
Unpack(b) ==
    IF Len(b) # native THEN StructError
    ELSE IF b[native] >= 128 THEN -1
    ELSE IF (\E i \in 5..native : b[i] # 0) \/ b[4] >= 128
    THEN TooLong
    ELSE b[1] * Pow256[1] + b[2] * Pow256[2] + b[3] * Pow256[3] + b[4] * Pow256[4]

Encode(payload) == Pack(Len(payload)) \o payload

ClientEnded == cPc \in {"fatal", "failed", "done"}
ServerEnded == sPc \in {"TypeError", "closed"}
ServerListening == sPc \in {"listening", "recv_len", "recv_data", "transcribe"}

Attempts == Cardinality({i \in DOMAIN connLog : connLog[i].ev # "sleep"})

Init ==
    /\ native \in NativeSizes
    /\ cPc = "connect"
    /\ connLog = <<>>
    /\ keepalive_last = 0
    /\ phrase_time = NoTime
    /\ phrase_complete = FALSE
    /\ current_sample = <<>>
    /\ data_queue = <<>>
    /\ transcription = << <<>> >>
    /\ text = None
    /\ cBuf = <<>>
    /\ cLen = 0
    /\ c_eof = FALSE
    /\ captured = <<>>
    /\ arrival = NoTime
    /\ silences = {}
    /\ submitted = <<>>
    /\ returned = <<>>
    /\ finalizes = <<>>
    /\ reads = 0
    /\ printed = <<>>
    /\ interrupts = 0
    /\ latched = FALSE
    /\ sEntry \in {"main", "coroutine"}
    /\ sPc = IF sEntry = "main" THEN "main" ELSE "init"
    /\ sBuf = <<>>
    /\ sLen = 0
    /\ s_eof = FALSE
    /\ accepted = 0
    /\ frames = <<>>
    /\ engine = <<>>
    /\ replies = 0
    /\ link = "none"
    /\ c2s = <<>>
    /\ s2c = <<>>

(***************************************************************************)
(* A process that ends closes its socket: what it had not read is          *)
(* discarded, and so is whatever is sent to it afterwards.                 *)
(***************************************************************************)
\* bytes in flight to the server once the client wrote more
ToServer(more) == IF ServerEnded THEN <<>> ELSE c2s \o more
\* bytes in flight to the client once the server wrote more
ToClient(more) == IF ClientEnded THEN <<>> ELSE s2c \o more

\* a client that goes back to connect() when the session fails: C6 must not
\* survive it
ClientExit_reconnect(pc) ==
    /\ cPc' = IF pc = "failed" THEN "connect" ELSE pc
    /\ keepalive_last' = 0
    /\ phrase_time' = NoTime
    /\ phrase_complete' = FALSE
    /\ current_sample' = <<>>
    /\ data_queue' = <<>>
    /\ text' = None
    /\ cBuf' = <<>>
    /\ cLen' = 0
    /\ s2c' = <<>>
    /\ arrival' = NoTime
    /\ latched' = FALSE
    /\ printed' = IF pc = "done" THEN <<transcription>> ELSE printed
    /\ UNCHANGED <<transcription, c_eof, captured, silences, cHist,
                   finalizes, reads>>

\* The client process ends at pc: its threads and their locals are gone (the
\* model holds them at their initial values) and what it had not read is
\* discarded.  The transcript is kept: it is what lines 135-137 print.
ClientExit(pc) ==
    /\ cPc' = pc
    /\ keepalive_last' = 0
    /\ phrase_time' = NoTime
    /\ phrase_complete' = FALSE
    /\ current_sample' = <<>>
    /\ data_queue' = <<>>
    /\ text' = None
    /\ cBuf' = <<>>
    /\ cLen' = 0
    /\ s2c' = <<>>
    /\ arrival' = NoTime
    /\ latched' = FALSE
    /\ printed' = IF pc = "done" THEN <<transcription>> ELSE printed
    /\ UNCHANGED <<transcription, c_eof, captured, silences, cHist,
                   finalizes, reads>>

(***************************************************************************)
(* The clock: d units of time pass.                                        *)
(***************************************************************************)
Elapse(age, d, cap) == IF age = NoTime THEN NoTime ELSE Min(age + d, cap)

KeepAliveAfter(d) == Elapse(keepalive_last, d, KeepAliveSeconds)
PhraseTimeAfter(d) == Elapse(phrase_time, d, PhraseTimeout + 1)
ArrivalAfter(d) == Elapse(arrival, d, PhraseTimeout + 1)

(***************************************************************************)
(* Capture thread: record_callback.                                        *)
(***************************************************************************)
record_callback(audio) ==
    /\ ~ClientEnded
    /\ Len(captured) < MaxChunks
    /\ audio \in Recordings(Len(captured) + 1)
    /\ audio = <<>> => \A i \in DOMAIN captured : captured[i] # <<>>
    /\ data_queue' = Append(data_queue, audio)
    /\ captured' = Append(captured, audio)
    /\ arrival' = 0
    /\ silences' = IF arrival > PhraseTimeout
                   THEN silences \cup {Len(captured) + 1}
                   ELSE silences
    /\ UNCHANGED <<cPc, connLog, keepalive_last, cSeg, cIo, cHist, cMon>>
    /\ UNCHANGED <<native, svars, nvars>>

(***************************************************************************)
(* Client: connect() (lines 167-182), entered from main's cnx.send(None)   *)
(* at line 75, which is outside main's try.                                *)
(***************************************************************************)
\* a connect that goes round again at once after a refusal, without line 177:
\* C3 must not survive it
connect_no_backoff(outcome) ==
    CASE outcome = "ok" -> << [ev |-> "ok", t |-> 0] >>
      [] outcome = "refused" -> << [ev |-> "refused", t |-> 0] >>
      [] OTHER -> << [ev |-> "error", t |-> 0] >>

\* a connect whose except clause catches every exception: C4 must not
\* survive it
connect_retry_all(outcome) ==
    CASE outcome = "ok" -> << [ev |-> "ok", t |-> 0] >>
      [] outcome = "refused" -> << [ev |-> "refused", t |-> 0],
                                   [ev |-> "sleep", t |-> Backoff] >>
      [] OTHER -> << [ev |-> "error", t |-> 0],
                     [ev |-> "sleep", t |-> Backoff] >>

\* What one iteration of connect's loop does with the outcome of s.connect,
\* as the events it adds to connLog:
\*   "ok"       yield s
\*   "refused"  except ConnectionRefusedError: sleep(5); continue
\*   "error"    any other exception: not caught, leaves connect
connect(outcome) ==
    CASE outcome = "ok" -> << [ev |-> "ok", t |-> 0] >>
      [] outcome = "refused" -> << [ev |-> "refused", t |-> 0],
                                   [ev |-> "sleep", t |-> Backoff] >>
      [] OTHER -> << [ev |-> "error", t |-> 0] >>

\* time spent sleeping in the events
RECURSIVE Slept(_)
Slept(log) ==
    IF log = <<>> THEN 0
    ELSE (IF Head(log).ev = "sleep" THEN Head(log).t ELSE 0) + Slept(Tail(log))

\* where the client is after the events: in the loop of main, dead, or at the
\* next attempt
AfterConnect(events) ==
    CASE Last(events).ev = "ok" -> "loop"
      [] Last(events).ev = "error" -> "fatal"
      [] OTHER -> "connect"

Attempt(outcome) ==
    /\ cPc = "connect"
    /\ Attempts < MaxAttempts
    /\ LET events == connect(outcome)
       IN /\ connLog' = connLog \o events
          /\ IF AfterConnect(events) = "fatal"
             THEN /\ ClientExit("fatal")
                  /\ UNCHANGED <<link, interrupts>>
             ELSE /\ cPc' = AfterConnect(events)
                  /\ keepalive_last' = KeepAliveAfter(Slept(events))
                  /\ arrival' = ArrivalAfter(Slept(events))
                  /\ UNCHANGED silences
                  /\ link' = IF Last(events).ev = "ok" THEN "pending" ELSE link
                  /\ UNCHANGED <<cSeg, cIo, cHist, cCap, cMon, s2c>>
    /\ UNCHANGED <<native, svars, c2s>>

\* nobody listens on (host, port)
ConnectRefused == ~ServerListening /\ Attempt("refused")

\* the server listens and its backlog (listen(1)) is free
ConnectOk == ServerListening /\ link = "none" /\ Attempt("ok")

\* socket.timeout after settimeout(60), unreachable host, ...
ConnectError == Attempt("error")

(***************************************************************************)
(* KeepAlive (lines 140-153), on the elapsed time e = utcnow() - self.last.*)
(***************************************************************************)
\* step(): ret = now - self.last < seconds; self.last = now only if ret
step(e) == [ret |-> e < KeepAliveSeconds,
            last |-> IF e < KeepAliveSeconds THEN 0 ELSE e]

\* reset(): self.last = now
reset == 0

(***************************************************************************)
(* socket.send / socket.recv.                                              *)
(***************************************************************************)
\* s.send(buf) on the client's socket, which has a timeout (settimeout(60))
\* and so writes what the send buffer takes at once: the bytes transmitted,
\* given the free space of the buffer.  The return value (the count) is
\* discarded at line 193.
send(buf, free) == SubSeq(buf, 1, Min(Len(buf), free))

\* the buffer recv_exact(n, conn) holds after conn.recv(n - len(data))
\* returned k bytes of the stream
recv(data, stream, k) == data \o SubSeq(stream, 1, k)

\* the sizes conn.recv(n - len(data)) may return when the stream holds bytes
RecvSizes(n, data, stream) == 1..Min(n - Len(data), Len(stream))

\* the largest of them: conn.recv returns what the stream holds, up to the
\* size asked for
RecvAll(n, data, stream) == {Min(n - Len(data), Len(stream))} \ {0}

Drop(stream, k) == SubSeq(stream, k + 1, Len(stream))

(***************************************************************************)
(* Client: main's loop (lines 76-133).                                     *)
(***************************************************************************)
\* the value main sends into the coroutine: b'' at line 84, current_sample
\* at line 114
SendData == IF cPc = "loop" THEN <<>> ELSE current_sample

\* line 193: the bytes s.send(struct.pack("l", len(data)) + data) transmits
Sent == send(Encode(SendData), WireCap - Len(c2s))

\* lines 79-85, the queue is empty: sleep(0.25), keepalive.step() is false
IdleTick ==
    /\ cPc = "loop"
    /\ data_queue = <<>>
    /\ ~step(KeepAliveAfter(PollSleep)).ret
    /\ keepalive_last' = step(KeepAliveAfter(PollSleep)).last
    /\ phrase_time' = PhraseTimeAfter(PollSleep)
    /\ arrival' = ArrivalAfter(PollSleep)
    /\ latched' = ~step(KeepAliveAfter(PollSleep)).ret
    /\ UNCHANGED <<cPc, connLog, phrase_complete, current_sample, transcription,
                   cIo, cHist, cCap, silences, finalizes, reads, printed,
                   interrupts>>
    /\ UNCHANGED <<native, svars, nvars>>

\* lines 79-85 with keepalive.step() true: cnx.send(b'') writes a heartbeat
\* (coroutine lines 190-198)
IdleHeartbeat ==
    /\ cPc = "loop"
    /\ data_queue = <<>>
    /\ step(KeepAliveAfter(PollSleep)).ret
    /\ WireCap - Len(c2s) > 0
    /\ keepalive_last' = step(KeepAliveAfter(PollSleep)).last
    /\ phrase_time' = PhraseTimeAfter(PollSleep)
    /\ arrival' = ArrivalAfter(PollSleep)
    /\ c2s' = ToServer(Sent)
    /\ latched' = ~step(KeepAliveAfter(PollSleep)).ret
    /\ UNCHANGED <<cPc, connLog, phrase_complete, current_sample, transcription,
                   cIo, cHist, cCap, silences, finalizes, reads, printed,
                   interrupts>>
    /\ UNCHANGED <<native, svars, link, s2c>>

\* the same, but s.send raises (reset, broken pipe, timeout on a full
\* buffer): lines 194-195 raise RuntimeError, which main does not catch
IdleHeartbeatRaise ==
    /\ cPc = "loop"
    /\ data_queue = <<>>
    /\ step(KeepAliveAfter(PollSleep)).ret
    /\ ClientExit("failed")
    /\ UNCHANGED <<connLog, interrupts>>
    /\ UNCHANGED <<native, svars, link, c2s>>

\* line 90: phrase_time and now - phrase_time > timedelta(seconds=phrase_timeout)
PhraseGap(elapsed) == elapsed # NoTime /\ elapsed > PhraseTimeout

\* the recordings data_queue.get has returned so far
Dequeued == Len(captured) - Len(data_queue)

\* lines 88-102: the queue holds recordings
BeginTick ==
    /\ cPc = "loop"
    /\ data_queue # <<>>
    /\ phrase_complete' = PhraseGap(phrase_time)
    /\ current_sample' = IF PhraseGap(phrase_time) THEN <<>> ELSE current_sample
    /\ phrase_time' = 0
    /\ cPc' = "drain"
    /\ keepalive_last' = 0
    /\ finalizes' = IF PhraseGap(phrase_time)
                    THEN Append(finalizes, Dequeued)
                    ELSE finalizes
    /\ UNCHANGED <<connLog, transcription, cIo, cHist, cCap, cArr, reads,
                   printed, interrupts, latched>>
    /\ UNCHANGED <<native, svars, nvars>>

\* a drain loop that puts each recording in front of the buffer: C18 must
\* not survive it
Concatenate_prepend(sample, data) == data \o sample

\* line 111: current_sample += data
Concatenate(sample, data) == sample \o data

\* lines 104-111: one iteration of the drain loop
DrainOne ==
    /\ cPc = "drain"
    /\ data_queue # <<>>
    /\ current_sample' = Concatenate(current_sample, Head(data_queue))
    /\ data_queue' = Tail(data_queue)
    /\ UNCHANGED <<cPc, connLog, keepalive_last, phrase_time, phrase_complete,
                   transcription, cIo, cHist, captured, cArr, cMon>>
    /\ UNCHANGED <<native, svars, nvars>>

\* lines 105-110: KeyboardInterrupt inside data_queue.get is caught by the
\* bare except, which sends a heartbeat and goes round the loop again
DrainInterrupt ==
    /\ cPc = "drain"
    /\ data_queue # <<>>
    /\ interrupts < MaxInterrupts
    /\ WireCap - Len(c2s) > 0
    /\ c2s' = ToServer(send(Encode(<<>>), WireCap - Len(c2s)))
    /\ interrupts' = interrupts + 1
    /\ UNCHANGED <<cPc, connLog, keepalive_last, cSeg, cIo, cHist, cCap, cArr,
                   finalizes, reads, printed, latched>>
    /\ UNCHANGED <<native, svars, link, s2c>>

(***************************************************************************)
(* Client: connection_coroutine (lines 189-205).                           *)
(***************************************************************************)
\* a coroutine that yields after every send without reading the reply: C13
\* must not survive it
AfterSend_nowait(data) == "update"

\* lines 197-198: after a heartbeat the coroutine yields at once, after a
\* payload it goes on to read the reply
AfterSend(data) == IF data = <<>> THEN "update" ELSE "recv_len"

\* line 104 finds the queue empty, line 114 enters the coroutine and s.send
\* at line 193 returns
ExchangeSend ==
    /\ cPc = "drain"
    /\ data_queue = <<>>
    /\ WireCap - Len(c2s) > 0
    /\ c2s' = ToServer(Sent)
    /\ submitted' = Append(submitted, SendData)
    /\ cPc' = AfterSend(SendData)
    /\ cBuf' = <<>>
    /\ UNCHANGED <<connLog, keepalive_last, cSeg, text, cLen, c_eof,
                   returned, cCap, cArr, cMon>>
    /\ UNCHANGED <<native, svars, link, s2c>>

\* the same, but s.send raises: lines 194-195
ExchangeSendRaise ==
    /\ cPc = "drain"
    /\ data_queue = <<>>
    /\ ClientExit("failed")
    /\ UNCHANGED <<connLog, interrupts>>
    /\ UNCHANGED <<native, svars, link, c2s>>

\* the server's end of the stream is closed and everything it sent was read
ClientAtEOF == link = "open" /\ sPc = "closed" /\ s2c = <<>>

\* the n of the recv_exact call the client is in (lines 202-203)
ClientWants == IF cPc = "recv_len" THEN LongSize ELSE cLen

\* lines 202-203: one conn.recv inside recv_exact returns k bytes, after
\* blocking for d units of time
ClientRecv(k, d) ==
    /\ cPc \in {"recv_len", "recv_text"}
    /\ LET n == ClientWants
           data == recv(cBuf, s2c, k)
       IN /\ k \in RecvSizes(n, cBuf, s2c)
          /\ IF Len(data) = n /\ (IF cPc = "recv_text" THEN Utf8Decode(data) = None
                                                         ELSE Unpack(data) = StructError)
             THEN \* struct.unpack or .decode('utf8') raises: lines 204-205
                  /\ ClientExit("failed")
                  /\ UNCHANGED <<c2s, interrupts>>
             ELSE /\ s2c' = Drop(s2c, k)
                  /\ phrase_time' = PhraseTimeAfter(d)
                  /\ arrival' = ArrivalAfter(d)
                  /\ UNCHANGED <<keepalive_last, phrase_complete, current_sample,
                                 transcription, c_eof, cHist, cCap, silences,
                                 finalizes, printed, interrupts, latched>>
                  /\ IF Len(data) < n
                     THEN /\ cBuf' = data
                          /\ UNCHANGED <<cPc, cLen, text>>
                     ELSE IF cPc = "recv_len"
                     THEN \* recv_exact(0, s) returns b'' without reading
                          /\ cBuf' = <<>>
                          /\ cLen' = IF Unpack(data) <= 0 THEN 0 ELSE Unpack(data)
                          /\ cPc' = IF Unpack(data) <= 0 THEN "update" ELSE "recv_text"
                          /\ text' = IF Unpack(data) <= 0 THEN <<>> ELSE text
                     ELSE /\ cBuf' = <<>>
                          /\ cPc' = "update"
                          /\ text' = Utf8Decode(data)
                          /\ cLen' = 0
                  /\ reads' = IF cPc' = "update" THEN reads + 1 ELSE reads
                  /\ UNCHANGED c2s
    /\ UNCHANGED <<native, connLog>>
    /\ UNCHANGED <<svars, link>>

\* conn.recv returns b'' at end of stream: data += b'' and the loop of
\* recv_exact goes round again
ClientRecvEOF ==
    /\ cPc \in {"recv_len", "recv_text"}
    /\ ClientAtEOF
    /\ c_eof' = TRUE
    /\ UNCHANGED <<cPc, connLog, keepalive_last, cSeg, text, cBuf, cLen, cHist,
                   cCap, cArr, cMon>>
    /\ UNCHANGED <<native, svars, nvars>>

\* conn.recv raises (socket.timeout after 60 s, reset): lines 204-205
ClientRecvRaise ==
    /\ cPc \in {"recv_len", "recv_text"}
    /\ ~ClientAtEOF
    /\ ClientExit("failed")
    /\ UNCHANGED <<connLog, interrupts>>
    /\ UNCHANGED <<native, svars, link, c2s>>

\* an edit that appends on every tick: C11 must not survive it
UpdateLines_append(lines, complete, t) == Append(lines, t)

\* an edit that writes transcription[0] instead of transcription[-1]: C12
\* must not survive it
UpdateLines_first(lines, complete, t) ==
    IF complete THEN Append(lines, t) ELSE [lines EXCEPT ![1] = t]

\* lines 118-121: transcription.append(text) when phrase_complete, otherwise
\* transcription[-1] = text
UpdateLines(lines, complete, t) ==
    IF complete THEN Append(lines, t) ELSE [lines EXCEPT ![Len(lines)] = t]

\* lines 115-131: cnx.send returned text
UpdateTranscript ==
    /\ cPc = "update"
    /\ returned' = Append(returned, text)
    /\ transcription' = UpdateLines(transcription, phrase_complete, text)
    /\ keepalive_last' = Elapse(reset, PollSleep, KeepAliveSeconds)
    /\ phrase_time' = PhraseTimeAfter(PollSleep)
    /\ arrival' = ArrivalAfter(PollSleep)
    /\ cPc' = "loop"
    /\ phrase_complete' = FALSE
    /\ latched' = FALSE
    /\ UNCHANGED <<connLog, current_sample, cIo, submitted, cCap, silences,
                   finalizes, reads, printed, interrupts>>
    /\ UNCHANGED <<native, svars, nvars>>

\* lines 194-195: KeyboardInterrupt inside s.send (line 84 or line 114) is
\* caught by the bare except and becomes RuntimeError, which main does not
\* catch
ClientSendInterrupt ==
    /\ \/ cPc = "loop" /\ data_queue = <<>> /\ step(KeepAliveAfter(PollSleep)).ret
       \/ cPc = "drain" /\ data_queue = <<>>
    /\ ClientExit("failed")
    /\ interrupts' = interrupts + 1
    /\ UNCHANGED connLog
    /\ UNCHANGED <<native, svars, link, c2s>>

\* lines 204-205: KeyboardInterrupt inside recv_exact is caught by the bare
\* except and becomes RuntimeError, which main does not catch
ClientRecvInterrupt ==
    /\ cPc \in {"recv_len", "recv_text"}
    /\ ClientExit("failed")
    /\ interrupts' = interrupts + 1
    /\ UNCHANGED connLog
    /\ UNCHANGED <<native, svars, link, c2s>>

\* lines 132-137: KeyboardInterrupt in main's try outside the coroutine and
\* the bare except, the transcript is printed
ClientInterrupt ==
    /\ cPc \in {"loop", "drain", "update"}
    /\ ClientExit("done")
    /\ interrupts' = interrupts + 1
    /\ UNCHANGED connLog
    /\ UNCHANGED <<native, svars, link, c2s>>

(***************************************************************************)
(* Server: main (lines 39-65) and connection_coroutine (lines 75-102).     *)
(***************************************************************************)
\* line 39 as written: connection_coroutine() is called without host and
\* port, the call raises TypeError and main ends before anything listens
ServerMain ==
    /\ sEntry = "main"
    /\ sPc = "main"
    /\ sPc' = "TypeError"
    /\ UNCHANGED <<sEntry, sIo, sHist>>
    /\ UNCHANGED <<native, cvars, nvars>>

\* lines 76-83: bind, listen(1), settimeout(5), accept blocks
ServerListen ==
    /\ sEntry = "coroutine"
    /\ sPc = "init"
    /\ sPc' = "listening"
    /\ UNCHANGED <<sEntry, sIo, sHist>>
    /\ UNCHANGED <<native, cvars, nvars>>

\* lines 83-88: s.accept() returns, the loop starts reading
ServerAccept ==
    /\ sPc = "listening"
    /\ link = "pending"
    /\ link' = "open"
    /\ accepted' = accepted + 1
    /\ sPc' = "recv_len"
    /\ sBuf' = <<>>
    /\ UNCHANGED <<sEntry, sLen, s_eof, frames, engine, replies>>
    /\ UNCHANGED <<native, cvars, c2s, s2c>>

\* s.accept() raises socket.timeout after 5 s without a client: not caught
ServerAcceptTimeout ==
    /\ sPc = "listening"
    /\ link = "none"
    /\ sPc' = "closed"
    /\ sBuf' = <<>>
    /\ sLen' = 0
    /\ UNCHANGED <<sEntry, s_eof, sHist>>
    /\ c2s' = <<>>
    /\ UNCHANGED <<native, cvars, link, s2c>>

\* the client's end of the stream is closed and everything it sent was read
ServerAtEOF == ClientEnded /\ c2s = <<>>

\* a dispatch without the heartbeat branch of line 89: C2 must not survive it
dispatch_payload(length) == "payload"

\* what the loop does with a decoded length (lines 88-92): "heartbeat"
\* continues without reading a payload or replying, "payload" reads it
dispatch(length) == IF length = 0 THEN "heartbeat" ELSE "payload"

\* the n of the recv_exact call the server is in (lines 88 and 92)
ServerWants == IF sPc = "recv_len" THEN LongSize ELSE sLen

\* lines 88-94: what the loop does once recv_exact returned data
ServerDecoded(data) ==
    IF sPc = "recv_data"
    THEN \* text = yield data_recv
         /\ sBuf' = <<>>
         /\ sLen' = 0
         /\ frames' = Append(frames, data)
         /\ sPc' = "transcribe"
    ELSE IF dispatch(Unpack(data)) = "heartbeat"
    THEN /\ sBuf' = <<>>
         /\ sLen' = Unpack(data)
         /\ UNCHANGED <<sPc, frames>>
    ELSE IF Unpack(data) <= 0
    THEN \* recv_exact(length, conn) returns b'' without reading
         /\ sBuf' = <<>>
         /\ sLen' = 0
         /\ frames' = Append(frames, <<>>)
         /\ sPc' = "transcribe"
    ELSE /\ sBuf' = <<>>
         /\ sLen' = Unpack(data)
         /\ sPc' = "recv_data"
         /\ UNCHANGED frames

\* lines 88-94: one conn.recv inside recv_exact returns k bytes
ServerRecv(k) ==
    /\ sPc \in {"recv_len", "recv_data"}
    /\ LET n == ServerWants
           data == recv(sBuf, c2s, k)
       IN /\ k \in RecvSizes(n, sBuf, c2s)
          /\ IF Len(data) < n
             THEN /\ sBuf' = data
                  /\ c2s' = Drop(c2s, k)
                  /\ UNCHANGED <<sPc, sLen, frames>>
             ELSE IF sPc = "recv_len" /\ Unpack(data) = StructError
             THEN \* struct.unpack raises: not caught
                  /\ sPc' = "closed"
                  /\ sBuf' = <<>>
                  /\ sLen' = 0
                  /\ c2s' = <<>>
                  /\ UNCHANGED frames
             ELSE /\ c2s' = Drop(c2s, k)
                  /\ ServerDecoded(data)
    /\ UNCHANGED <<sEntry, s_eof, accepted, engine, replies>>
    /\ UNCHANGED <<native, cvars, link, s2c>>

\* conn.recv returns b'' at end of stream: the loop of recv_exact goes round
ServerRecvEOF ==
    /\ sPc \in {"recv_len", "recv_data"}
    /\ ServerAtEOF
    /\ s_eof' = TRUE
    /\ UNCHANGED <<sEntry, sPc, sBuf, sLen, sHist>>
    /\ UNCHANGED <<native, cvars, nvars>>

\* conn.recv raises (reset): leaves the generator through finally, and main
\* catches only StopIteration and KeyboardInterrupt
ServerRecvRaise ==
    /\ sPc \in {"recv_len", "recv_data"}
    /\ ~ServerAtEOF
    /\ sPc' = "closed"
    /\ sBuf' = <<>>
    /\ sLen' = 0
    /\ UNCHANGED <<sEntry, s_eof, sHist>>
    /\ c2s' = <<>>
    /\ UNCHANGED <<native, cvars, link, s2c>>

\* main lines 54-55: the text sent back for what the engine returned
Transcript(result) == Strip(result)

\* coroutine lines 95-96
Reply(t) == Pack(Len(Utf8Encode(t))) \o Utf8Encode(t)

\* main lines 46-58 and coroutine lines 95-98: one transcription, one reply.
\* conn is a blocking socket: conn.send returns when the buffer took it all.
ServerReply(result) ==
    /\ sPc = "transcribe"
    /\ Len(s2c) + Len(Reply(Transcript(result))) <= WireCap
    /\ engine' = Append(engine, result)
    /\ s2c' = ToClient(Reply(Transcript(result)))
    /\ replies' = replies + 1
    /\ sPc' = "recv_len"
    /\ sBuf' = <<>>
    /\ UNCHANGED <<sEntry, sLen, s_eof, accepted, frames>>
    /\ UNCHANGED <<native, cvars, link, c2s>>

\* conn.send raises after the transcription: not caught
ServerSendRaise(result) ==
    /\ sPc = "transcribe"
    /\ engine' = Append(engine, result)
    /\ sPc' = "closed"
    /\ sBuf' = <<>>
    /\ sLen' = 0
    /\ UNCHANGED <<sEntry, s_eof, accepted, frames, replies>>
    /\ c2s' = <<>>
    /\ UNCHANGED <<native, cvars, link, s2c>>

\* KeyboardInterrupt: coroutine lines 99-102, main lines 64-65
ServerInterrupt ==
    /\ sPc \in {"listening", "recv_len", "recv_data", "transcribe"}
    /\ sPc' = "closed"
    /\ sBuf' = <<>>
    /\ sLen' = 0
    /\ UNCHANGED <<sEntry, s_eof, sHist>>
    /\ c2s' = <<>>
    /\ UNCHANGED <<native, cvars, link, s2c>>

(***************************************************************************)
(* The system.                                                             *)
(***************************************************************************)
Next ==
    \/ \E audio \in Recordings(Len(captured) + 1) : record_callback(audio)
    \/ ConnectRefused
    \/ ConnectOk
    \/ ConnectError
    \/ IdleTick
    \/ IdleHeartbeat
    \/ IdleHeartbeatRaise
    \/ BeginTick
    \/ DrainOne
    \/ DrainInterrupt
    \/ ExchangeSend
    \/ ExchangeSendRaise
    \/ \E k \in RecvAll(ClientWants, cBuf, s2c), d \in 0..PhraseTimeout + 1 : ClientRecv(k, d)
    \/ ClientRecvEOF
    \/ ClientRecvRaise
    \/ ClientSendInterrupt
    \/ ClientRecvInterrupt
    \/ UpdateTranscript
    \/ ClientInterrupt
    \/ ServerMain
    \/ ServerListen
    \/ ServerAccept
    \/ ServerAcceptTimeout
    \/ \E k \in RecvAll(ServerWants, sBuf, c2s) : ServerRecv(k)
    \/ ServerRecvEOF
    \/ ServerRecvRaise
    \/ \E result \in EngineTexts(Len(engine) + 1) : ServerReply(result)
    \/ \E result \in EngineTexts(Len(engine) + 1) : ServerSendRaise(result)
    \/ ServerInterrupt

Spec == Init /\ [][Next]_vars

(***************************************************************************)
(* The framing alone: one exchange on a connected session, for every       *)
(* payload of up to MaxLen bytes and every text of CodecTexts, with        *)
(* conn.recv returning the bytes in pieces of every size.                  *)
(***************************************************************************)
CodecBytes == {0, 255}
CodecPayloads == UNION {[1..n -> CodecBytes] : n \in 0..MaxLen}
\* result['text']: empty, one ASCII character, a space and U+00E9
CodecTexts == {<<>>, <<97>>, <<32, 233>>}

\* The client has sent the frame of p and nothing of it has been read: p is
\* the buffer of line 114 or, when empty, the heartbeat of line 84.
InitCodec ==
    /\ native \in NativeSizes
    /\ \E p \in CodecPayloads :
          /\ cPc = IF p = <<>> THEN "loop" ELSE "recv_len"
          /\ current_sample = p
          /\ captured = IF p = <<>> THEN <<>> ELSE <<p>>
          /\ submitted = IF p = <<>> THEN <<>> ELSE <<p>>
          /\ phrase_time = IF p = <<>> THEN NoTime ELSE 0
          /\ arrival = IF p = <<>> THEN NoTime ELSE 0
          /\ c2s = Encode(p)
    /\ connLog = connect("ok")
    /\ keepalive_last = 0
    /\ phrase_complete = FALSE
    /\ data_queue = <<>>
    /\ transcription = << <<>> >>
    /\ text = None
    /\ cBuf = <<>>
    /\ cLen = 0
    /\ c_eof = FALSE
    /\ silences = {}
    /\ returned = <<>>
    /\ finalizes = <<>>
    /\ reads = 0
    /\ printed = <<>>
    /\ interrupts = 0
    /\ latched = FALSE
    /\ sEntry = "coroutine"
    /\ sPc = "recv_len"
    /\ sBuf = <<>>
    /\ sLen = 0
    /\ s_eof = FALSE
    /\ accepted = 1
    /\ frames = <<>>
    /\ engine = <<>>
    /\ replies = 0
    /\ link = "open"
    /\ s2c = <<>>

NextCodec ==
    \/ \E k \in RecvSizes(ServerWants, sBuf, c2s) : ServerRecv(k)
    \/ \E result \in CodecTexts : ServerReply(result)
    \/ \E k \in RecvSizes(ClientWants, cBuf, s2c) : ClientRecv(k, 0)

SpecCodec == InitCodec /\ [][NextCodec]_vars

(***************************************************************************)
(* Properties.                                                             *)
(***************************************************************************)
NonEmpty(p) == p # <<>>

\* the non-empty buffers submitted at line 114, in order
Payloads == SelectSeq(submitted, NonEmpty)

\* how many of the first j submitted buffers are non-empty
Rank(j) == Len(SelectSeq(SubSeq(submitted, 1, j), NonEmpty))

\* client and server both block in recv_exact on an open connection that
\* carries nothing in either direction
Stalled ==
    /\ link = "open"
    /\ cPc \in {"recv_len", "recv_text"}
    /\ sPc \in {"recv_len", "recv_data"}
    /\ c2s = <<>>
    /\ s2c = <<>>

\* C1: on hosts where the prefix is 8 bytes wide, every non-empty payload the
\* client submits reaches the server as one frame with exactly that payload
\* (the exchange never stalls with the frame incomplete), the engine is
\* called once per frame, one reply is written per call, and the exchange
\* returns the text main obtained from the engine for that payload
\* (lines 54-55).
C1_EndToEnd ==
    native = LongSize =>
        /\ ~Stalled
        /\ Len(frames) <= Len(Payloads)
        /\ \A i \in DOMAIN frames : frames[i] = Payloads[i]
        /\ Len(engine) <= Len(frames)
        /\ replies <= Len(engine)
        /\ \A j \in DOMAIN returned :
               submitted[j] # <<>> => returned[j] = Transcript(engine[Rank(j)])

\* the server reads a complete prefix that decodes to 0 in this step
HeartbeatRead ==
    /\ sPc = "recv_len"
    /\ Len(c2s') < Len(c2s)
    /\ Len(sBuf) + Len(c2s) >= LongSize
    /\ Unpack(sBuf \o SubSeq(c2s, 1, LongSize - Len(sBuf))) = 0

\* the client is about to send a heartbeat at line 84
HeartbeatDue ==
    cPc = "loop" /\ data_queue = <<>> /\ step(KeepAliveAfter(PollSleep)).ret

C3_ConnectRetry ==
    /\ \A i \in DOMAIN connLog :
          /\ connLog[i].ev = "refused" =>
                 i < Len(connLog) /\ connLog[i + 1] = [ev |-> "sleep", t |-> Backoff]
          /\ connLog[i].ev = "sleep" =>
                 /\ i > 1 /\ connLog[i - 1].ev = "refused"
                 /\ i < Len(connLog) => connLog[i + 1].ev \in {"refused", "ok", "error"}
                 /\ i = Len(connLog) => cPc = "connect"
          /\ connLog[i].ev = "ok" => i = Len(connLog)
    /\ cPc = "fatal" => connLog # <<>> /\ Last(connLog).ev = "error"
    /\ cPc \notin {"connect", "fatal"} => connLog # <<>> /\ Last(connLog).ev = "ok"
    /\ link # "none" => connLog # <<>> /\ Last(connLog).ev = "ok"

\* three refusals, each with its backoff, then a success: connected after
\* exactly four attempts
C3_Witness ==
    /\ cPc = "loop"
    /\ Len(connLog) = 7
    /\ Attempts = 4
    /\ \A i \in {1, 3, 5} : connLog[i].ev = "refused"
    /\ \A i \in {2, 4, 6} : connLog[i] = [ev |-> "sleep", t |-> Backoff]
    /\ connLog[7].ev = "ok"
    /\ link # "none"

\* C4: an attempt that fails with anything but a refusal is the last thing
\* connect does: no sleep and no attempt follows it, no connection exists,
\* the client has ended with the error and stays ended.
C4_ConnectErrorFatal ==
    /\ [](\A i \in DOMAIN connLog :
             connLog[i].ev = "error" =>
                 i = Len(connLog) /\ cPc = "fatal" /\ link = "none")
    /\ [][cPc = "fatal" => cPc' = "fatal" /\ connLog' = connLog /\ c2s' = c2s]_vars

\* a refusal, its backoff, then a connect error: the client has ended
C4_Witness ==
    /\ cPc = "fatal"
    /\ Len(connLog) = 3
    /\ connLog[1].ev = "refused"
    /\ connLog[3].ev = "error"

\* C5: once conn.recv has told the client's recv_exact that the peer closed
\* the stream, the exchange has raised and the session has failed.
C5_TransportFailureRaises == c_eof => cPc = "failed"

\* C6: once an attempt has succeeded no further attempt is made, whatever
\* happens; a failed session stays failed and sends nothing more.
C6_NoReconnect ==
    /\ [][(connLog # <<>> /\ Last(connLog).ev = "ok") => connLog' = connLog]_vars
    /\ [][cPc = "failed" =>
             /\ cPc' = "failed"
             /\ Len(c2s') <= Len(c2s)
             /\ submitted' = submitted]_vars
    /\ [](cPc = "failed" => connLog # <<>> /\ Last(connLog).ev = "ok")

\* the session failed after a payload was submitted, while the server was
\* still there to be connected to
C6_Witness ==
    /\ cPc = "failed"
    /\ submitted # <<>>
    /\ ~ServerEnded
    /\ Last(connLog).ev = "ok"

\* C7: once conn.recv has told the server's recv_exact that the client
\* closed the stream, the dispatch loop has ended in Closed.
C7_ServerClosesOnDisconnect == s_eof => sPc = "closed"

\* the states of section DispatchLoop
ServerState ==
    CASE sPc = "listening" -> "AwaitingClient"
      [] sPc \in {"recv_len", "recv_data", "transcribe"} -> "Serving"
      [] sPc = "closed" -> "Closed"
      [] OTHER -> sPc

\* C8: the server accepts one connection at most, serves only after it has
\* accepted it, and ends only by reaching Closed.
C8_SingleSession ==
    /\ accepted <= 1
    /\ ServerState = "Serving" => accepted = 1
    /\ ServerEnded => ServerState = "Closed"

\* C9: for every payload p, once all the bytes of encode(p) have been
\* delivered, in pieces of whatever sizes, the server's decoder has yielded
\* exactly p (nothing, for the zero-length frame, and it waits for the next
\* prefix); it knew the length before it read any payload byte; and the
\* client's decoder yields the text of the reply frame the same way.
C9_RoundTrip ==
    /\ \A i \in DOMAIN frames : frames[i] = current_sample
    /\ c2s = <<>> =>
          /\ ~ServerEnded /\ sBuf = <<>>
          /\ frames = (IF current_sample = <<>> THEN <<>> ELSE <<current_sample>>)
    /\ sPc = "recv_data" => sLen = Len(current_sample)
    /\ sPc = "recv_len" /\ frames = <<>> => Len(c2s) >= Len(current_sample)
    /\ cPc = "recv_text" => cLen = Len(Utf8Encode(Transcript(Last(engine))))
    /\ (replies = 1 /\ s2c = <<>>) =>
          cPc = "update" /\ text = Transcript(Last(engine))

\* the same on the hosts where struct.calcsize("l") is the 8 of recv_exact(8)
C9_RoundTripLP64 == native = LongSize => C9_RoundTrip

\* C10: when the recordings but the last came within phrase_timeout of one
\* another, the last came after a longer silence, and every recording has
\* been picked up by a tick of its own whose exchange has returned, then
\* exactly one line has been finalized (the transcript has two lines) and
\* the second line is the text of a buffer that holds the last recording
\* alone.
C10_Segmentation ==
    \A n \in 1..(Len(captured) - 1) :
        (/\ Len(captured) = n + 1
         /\ silences = {n + 1}
         /\ \A i \in DOMAIN captured : captured[i] # <<>>
         /\ Len(submitted) = Len(captured)
         /\ cPc = "loop"
         /\ data_queue = <<>>)
        => /\ Len(transcription) = 2
           /\ Last(submitted) = captured[n + 1]
           /\ transcription[2] = Last(returned)

\* the tick that is under way took the branch of lines 91-101
Finalizing == cPc \in {"drain", "recv_len", "recv_text", "update"} /\ phrase_complete

\* all the lines but the last
Settled(lines) == SubSeq(lines, 1, Len(lines) - 1)

\* C11: the tick that completes an exchange leaves the number of lines as it
\* is and replaces the last line by the text returned when it did not
\* finalize a phrase, and appends the text as one new last line when it did;
\* every line but the last is left as it was.  Hence between ticks the
\* number of lines is 1 + the number of finalize events, and within a tick
\* the one finalize event of the tick is not yet counted in the lines.
C11_ReplaceOrAppend ==
    /\ [][returned' # returned =>
             /\ Last(transcription') = Last(returned')
             /\ IF phrase_complete
                THEN /\ Len(transcription') = Len(transcription) + 1
                     /\ Settled(transcription') = transcription
                ELSE /\ Len(transcription') = Len(transcription)
                     /\ Settled(transcription') = Settled(transcription)]_vars
    /\ [][returned' = returned => transcription' = transcription]_vars
    /\ [](~ClientEnded =>
             Len(transcription) + (IF Finalizing THEN 1 ELSE 0) = 1 + Len(finalizes))

\* three ticks have completed their exchanges, the second finalized a phrase
\* and the third did not: two lines
C11_Witness ==
    /\ cPc = "loop"
    /\ Len(returned) = 3
    /\ Len(finalizes) = 1
    /\ finalizes[1] = 1
    /\ Len(transcription) = 2
    /\ transcription[1] = returned[1]
    /\ transcription[2] = returned[3]

\* C12: no step removes a line, no step changes a line that is not the last,
\* and a step that adds a line leaves the line that was the last as it was:
\* every line but the last keeps the value it had when the next line was
\* appended, whatever the step (exchange, finalize, heartbeat, error).
C12_SettledLinesImmutable ==
    [][/\ Len(transcription') >= Len(transcription)
       /\ SubSeq(transcription', 1, Len(transcription) - 1) = Settled(transcription)
       /\ Len(transcription') > Len(transcription) =>
              SubSeq(transcription', 1, Len(transcription)) = transcription]_vars

\* two phrases were finalized and the session then failed: the two settled
\* lines are the texts returned for them
C12_Witness ==
    /\ cPc = "failed"
    /\ Len(transcription) = 3
    /\ Len(returned) = 3
    /\ transcription[1] = returned[1]
    /\ transcription[2] = returned[2]
    /\ transcription[1] # <<>>

\* non-empty frames the client wrote minus reply frames it read
Outstanding == Len(Payloads) - reads

\* C13: the client has at most one exchange outstanding; while one is
\* outstanding the client is inside the receive of lines 202-203 (or has
\* ended there) and no step of it writes a frame, heartbeat or payload.
C13_HalfDuplex ==
    /\ [](/\ Outstanding \in {0, 1}
          /\ Outstanding = 1 => cPc \in {"recv_len", "recv_text", "failed"})
    /\ [][Outstanding = 1 /\ Outstanding' = 1 =>
             /\ Len(c2s') <= Len(c2s)
             /\ submitted' = submitted]_vars

\* the second exchange is outstanding, the first has been answered, and the
\* frame of the second is still on its way to the server
C13_Witness ==
    /\ Outstanding = 1
    /\ reads = 1
    /\ Len(Payloads) = 2
    /\ cPc = "recv_len"
    /\ ~ServerEnded
    /\ Len(c2s) > LongSize
    /\ Len(frames) = 1

\* C14: whenever the client is connected, in its loop, and finds the queue
\* empty, the idle tick it is about to make sends a heartbeat
\* (keepalive.step() returns True after the sleep of line 80).
C14_IdleHeartbeats ==
    (cPc = "loop" /\ data_queue = <<>>) => step(KeepAliveAfter(PollSleep)).ret

\* C15: when a send or receive failure (not an interrupt) has ended the
\* session, the client has printed the transcript it had accumulated.
C15_FailurePrintsTranscript ==
    (cPc = "failed" /\ interrupts = 0) => printed = <<transcription>>

\* C16: once an interrupt has been delivered to the client in its polling
\* loop, the loop has stopped and the transcript has been printed.
C16_GracefulInterrupt ==
    interrupts > 0 => cPc = "done" /\ printed = <<transcription>>

\* C17: as long as every recording has arrived within phrase_timeout of the
\* arrival of the one before it, no tick has finalized a phrase, however
\* long the exchanges between the ticks took (stated for the runs whose
\* recordings all hold audio).
C17_ArrivalGapOnly ==
    (silences = {} /\ \A i \in DOMAIN captured : captured[i] # <<>>)
        => finalizes = <<>>

\* the bytes of the recordings, one after the other
RECURSIVE Concat(_)
Concat(chunks) == IF chunks = <<>> THEN <<>> ELSE Head(chunks) \o Concat(Tail(chunks))

\* the recordings dequeued before the last finalize
PhraseFrom == IF finalizes = <<>> THEN 0 ELSE Last(finalizes)

\* the k-th finalized phrase: the recordings dequeued between the finalize
\* before it and its own
Phrase(k) == SubSeq(captured, (IF k = 1 THEN 0 ELSE finalizes[k - 1]) + 1, finalizes[k])

\* C18: whatever the interleaving of record_callback with the loop, the
\* recordings not yet dequeued are the last ones captured, in order; the
\* buffer is the concatenation, in capture order, of the recordings dequeued
\* since the last finalize; what a tick submits is that whole buffer, and a
\* tick that has dequeued has submitted it before the loop goes round; the
\* finalized phrases are consecutive runs of the captured recordings (each
\* recording is in one buffer, once) and each was submitted whole.
C18_PhraseBuffer ==
    /\ [](~ClientEnded =>
             /\ data_queue = SubSeq(captured, Dequeued + 1, Len(captured))
             /\ current_sample = Concat(SubSeq(captured, PhraseFrom + 1, Dequeued))
             /\ cPc \in {"recv_len", "recv_text", "update"} =>
                    Last(submitted) = current_sample
             /\ (cPc = "loop" /\ Dequeued > 0) => Last(submitted) = current_sample
             /\ \A k \in DOMAIN finalizes :
                    /\ finalizes[k] <= Dequeued
                    /\ k > 1 => finalizes[k - 1] < finalizes[k]
                    /\ \E j \in DOMAIN submitted : submitted[j] = Concat(Phrase(k)))
    /\ [][submitted' # submitted =>
             data_queue = <<>> /\ submitted' = Append(submitted, current_sample)]_vars

\* a phrase of one recording was finalized and the tick that finalized it
\* dequeued the two recordings that had arrived since, while the capture
\* thread went on
C18_Witness ==
    /\ cPc = "update"
    /\ finalizes = <<1>>
    /\ Last(submitted) = <<2, 3>>
    /\ captured = << <<1>>, <<2>>, <<3>> >>

\* the step writes a whole zero-length frame to the server
HeartbeatWritten == c2s' = c2s \o Pack(0)

\* once keepalive.step() has returned False, the step() of every later idle
\* tick returns False as well and leaves keepalive.last as it is, until
\* keepalive.reset() is called
C19_Latch ==
    /\ [](latched /\ cPc = "loop" => ~step(KeepAliveAfter(PollSleep)).ret)
    /\ [][latched /\ cPc = "loop" /\ cPc' = "loop" =>
             latched' /\ keepalive_last' = keepalive_last]_vars
    /\ [][latched /\ ~latched' /\ ~ClientEnded' => returned' # returned]_vars

\* C19: the latch of C19_Latch, and so: while the timer is latched the
\* client writes no heartbeat, and the latch is released only by a completed
\* exchange of a non-empty buffer.
C19_HeartbeatLatch ==
    /\ C19_Latch
    /\ [][latched => ~HeartbeatWritten]_vars
    /\ [][latched /\ ~latched' /\ ~ClientEnded' =>
             returned' # returned /\ Last(submitted) # <<>>]_vars

\* C20: what cnx.send returns at line 114 to the j-th tick, and the tick
\* writes into the transcript, is a text (not None), is the reply to the
\* buffer of that tick when the buffer is not empty (the k-th reply for the
\* k-th non-empty frame), and is never the text an earlier tick was given,
\* whether the buffer is empty or not.
C20_ReplyAlignment ==
    \A j \in DOMAIN returned :
        /\ returned[j] # None
        /\ submitted[j] # <<>> => returned[j] = Transcript(engine[Rank(j)])
        /\ \A i \in 1..(j - 1) : returned[i] # returned[j]

====
